---- MODULE Spec2Model ----
(***************************************************************************)
(* Silence-based segmentation of word-list recordings                      *)
(* (src/processing/segmenter.py) over the SQLite store of                  *)
(* src/processing/database.py.                                             *)
(*                                                                         *)
(* Times are integers in milliseconds.  The ffmpeg variant works in float  *)
(* seconds; a time t seconds is represented by 1000*t, so its guard        *)
(* interval 0.1 s is 100.                                                  *)
(* Sequences are 1-based: the code's position i is index i+1 here.         *)
(***************************************************************************)
EXTENDS Integers, Sequences, FiniteSets, TLC

\* ------------------------------------------------------------------ bounds
NumRecs == 2        \* recordings in the store
MaxEntries == 2     \* entries of one recording
MaxRegions == 4     \* regions one detector call reports in the scheduler model
MaxRuns == 2        \* consecutive segment_all runs
NumWorkers == 2     \* pool processes (segment_all's workers argument)
MaxTarget == 4      \* largest target_count of the stand-alone search
MaxCount == 6       \* largest region count of the stand-alone search
MaxTime == 5        \* time points (multiples of 50 ms) of the padding inputs
MaxSilences == 2    \* silences of a stream of the stand-alone detector
MaxWarnEntries == 14  \* entries of the recording of a single segmentation
MaxWarnRegions == 16  \* regions one detector call reports in a single segmentation

\* ------------------------------------------------- constants of the program
_KEEP_SILENCE_MS == 100
_ACCEPTABLE_DIFF == 2

\* for th in [-45,-40,-35,-30] for ms in [300,200,150]
_PARAM_GRID ==
  << [min_silence_len |-> 300, silence_thresh |-> -45],
     [min_silence_len |-> 200, silence_thresh |-> -45],
     [min_silence_len |-> 150, silence_thresh |-> -45],
     [min_silence_len |-> 300, silence_thresh |-> -40],
     [min_silence_len |-> 200, silence_thresh |-> -40],
     [min_silence_len |-> 150, silence_thresh |-> -40],
     [min_silence_len |-> 300, silence_thresh |-> -35],
     [min_silence_len |-> 200, silence_thresh |-> -35],
     [min_silence_len |-> 150, silence_thresh |-> -35],
     [min_silence_len |-> 300, silence_thresh |-> -30],
     [min_silence_len |-> 200, silence_thresh |-> -30],
     [min_silence_len |-> 150, silence_thresh |-> -30] >>

\* same grid, min_silence_len_s = ms / 1000.0 (kept in ms here)
_FFMPEG_PARAM_GRID ==
  [k \in 1..Len(_PARAM_GRID) |->
     [min_silence_len_s |-> _PARAM_GRID[k].min_silence_len,
      silence_thresh_db |-> _PARAM_GRID[k].silence_thresh]]

\* ------------------------------------------------------------------ helpers
Abs(x) == IF x < 0 THEN -x ELSE x
Min(a, b) == IF a <= b THEN a ELSE b
Max(a, b) == IF a >= b THEN a ELSE b

RECURSIVE SumSeq(_)
SumSeq(s) == IF s = <<>> THEN 0 ELSE Head(s) + SumSeq(Tail(s))

\* float("inf") of best_diff is the record field value -1
INF == -1


\* ------------------------------------------- ffmpeg detector (lines 58-115)
\* What subprocess.run leaves in result.stderr, as the three regular
\* expressions see it: the silence_start values, the silence_end values and
\* the Duration declaration (NoDuration when no line matches).
NoDuration == [h |-> -1, mn |-> 0, s |-> 0, cs |-> 0]

\* duration = h * 3600 + mn * 60 + s + cs / 100.0, 0.0 when nothing matched
ParseDuration(d) ==
  IF d = NoDuration THEN 0
  ELSE (d.h * 3600 + d.mn * 60 + d.s) * 1000 + d.cs * 10

\* for i, ss in enumerate(silence_starts): ...
RECURSIVE BuildNonsilent(_, _, _, _, _)
BuildNonsilent(silence_starts, silence_ends, i, prev_end, nonsilent) ==
  IF i > Len(silence_starts)
  THEN [nonsilent |-> nonsilent, prev_end |-> prev_end]
  ELSE LET ss == silence_starts[i]
           ns == IF ss > prev_end
                 THEN Append(nonsilent, <<prev_end, ss>>)
                 ELSE nonsilent
           pe == IF i <= Len(silence_ends) THEN silence_ends[i] ELSE prev_end
       IN BuildNonsilent(silence_starts, silence_ends, i + 1, pe, ns)

\* FfmpegDetectNonsilent without the prev_end < duration test
DetectTrailingAlways(stream) ==
  LET duration == ParseDuration(stream.duration)
      b == BuildNonsilent(stream.silence_starts, stream.silence_ends, 1, 0, <<>>)
  IN IF duration > 0
     THEN Append(b.nonsilent, <<b.prev_end, duration>>)
     ELSE b.nonsilent

\* the value _ffmpeg_detect_nonsilent returns for one diagnostic stream; the
\* exit status of the tool is never read
FfmpegDetectNonsilent(stream) ==
  LET duration == ParseDuration(stream.duration)
      b == BuildNonsilent(stream.silence_starts, stream.silence_ends, 1, 0, <<>>)
  IN IF duration > 0 /\ b.prev_end < duration
     THEN Append(b.nonsilent, <<b.prev_end, duration>>)
     ELSE IF stream.silence_starts = <<>> /\ duration > 0
          THEN Append(b.nonsilent, <<0, duration>>)
          ELSE b.nonsilent

\* --------------------------------------------- adaptive search (both loops)
\* best_regions = [], best_diff = float("inf"), before the first grid pair;
\* gi is the grid pair the loop evaluates next.
SearchStart ==
  [gi |-> 1, best_diff |-> INF, best_regions |-> <<>>, best_params |-> 1,
   done |-> FALSE]

\* DiffImproves with the comparison reversed
DiffImprovesReversed(diff, best_diff) == best_diff = INF \/ diff > best_diff

\* DiffImproves with <= in place of <
DiffImprovesOrEqual(diff, best_diff) == best_diff = INF \/ diff <= best_diff

\* DiffImproves for the first pair only
DiffImprovesFirstOnly(diff, best_diff) == best_diff = INF

\* if diff < best_diff
DiffImproves(diff, best_diff) == best_diff = INF \/ diff < best_diff

\* if diff <= _ACCEPTABLE_DIFF: break
EarlyExitStrict(diff) == diff < _ACCEPTABLE_DIFF

EarlyExit(diff) == diff <= _ACCEPTABLE_DIFF

\* one iteration of the loop of _ffmpeg_adaptive_detect, the detector having
\* returned regions for grid pair s.gi
FfmpegAdaptiveStep(s, regions, target_count) ==
  LET diff == Abs(Len(regions) - target_count)
      better == DiffImproves(diff, s.best_diff)
  IN [gi |-> s.gi + 1,
      best_diff |-> IF better THEN diff ELSE s.best_diff,
      best_regions |-> IF better THEN regions ELSE s.best_regions,
      best_params |-> s.best_params,
      done |-> EarlyExit(diff) \/ s.gi = Len(_FFMPEG_PARAM_GRID)]

\* one iteration of the loop of _pydub_adaptive_split
PydubAdaptiveStep(s, regions, target_count) ==
  LET diff == Abs(Len(regions) - target_count)
      better == DiffImproves(diff, s.best_diff)
  IN [gi |-> s.gi + 1,
      best_diff |-> IF better THEN diff ELSE s.best_diff,
      best_regions |-> IF better THEN regions ELSE s.best_regions,
      best_params |-> IF better THEN s.gi ELSE s.best_params,
      done |-> EarlyExit(diff) \/ s.gi = Len(_PARAM_GRID)]

\* AdaptiveStep in which an empty detection never replaces a non-empty one
AdaptiveStepKeepsNonEmpty(use_ffmpeg, s, regions, target_count) ==
  LET n == IF use_ffmpeg THEN FfmpegAdaptiveStep(s, regions, target_count)
           ELSE PydubAdaptiveStep(s, regions, target_count)
  IN IF regions = << >> /\ s.best_regions # << >>
     THEN [n EXCEPT !.best_regions = s.best_regions, !.best_diff = s.best_diff,
                    !.best_params = s.best_params]
     ELSE n

AdaptiveStep(use_ffmpeg, s, regions, target_count) ==
  IF use_ffmpeg THEN FfmpegAdaptiveStep(s, regions, target_count)
  ELSE PydubAdaptiveStep(s, regions, target_count)

\* ------------------------------------------------------------------ padding
\* PydubPad without the max(0, ...)
PydubPadNoFloor(region, audio_len) ==
  << region[1] - _KEEP_SILENCE_MS,
     Min(audio_len, region[2] + _KEEP_SILENCE_MS) >>

\* padded_start = max(0, start_ms - keep); padded_end = min(len(audio), end_ms + keep)
PydubPad(region, audio_len) ==
  << Max(0, region[1] - _KEEP_SILENCE_MS),
     Min(audio_len, region[2] + _KEEP_SILENCE_MS) >>

\* the second half of _pydub_adaptive_split: padded_regions
PydubPadAll(best_regions, audio_len) ==
  [k \in 1..Len(best_regions) |-> PydubPad(best_regions[k], audio_len)]

\* padded_start = max(0.0, start_s - keep_s); padded_end = end_s + keep_s
FfmpegPad(region) ==
  << Max(0, region[1] - _KEEP_SILENCE_MS), region[2] + _KEEP_SILENCE_MS >>


\* ============================================================== the system
VARIABLES
  cfg,        \* how segment_all is called: pool size (workers), number of calls
              \* (runs), language_code arguments (languages), use_ffmpeg
              \* arguments (variants); and the most regions a detector call
              \* reports (regions)
  recTable,   \* recordings table: recording id -> its row
  entries,    \* entries table: recording id -> its rows, ORDER BY entry_number
  wavExists,  \* recording id -> the source WAV is on disk
  segments,   \* segments table as committed (what any connection reads)
  files,      \* segment files written to disk
  sched,      \* segment_all: position, arguments and locals
  wk,         \* pool process -> position and locals of _segment_recording_worker
  resultq,    \* results of finished tasks, not yet yielded by imap_unordered
  writeLock,  \* pool process holding SQLite's write lock, 0 when free
  info,       \* history, per recording, of the current run
  hist,       \* history of the runs
  pad,        \* stand-alone padding: input and output
  srch,       \* stand-alone adaptive search
  det         \* stand-alone ffmpeg detector: diagnostic stream and result

vars == << cfg, recTable, entries, wavExists, segments, files, sched, wk, resultq, writeLock,
           info, hist, pad, srch, det >>
sysVars == << cfg, recTable, entries, wavExists, segments, files, sched, wk, resultq,
              writeLock, info, hist >>

Recs == 1..NumRecs
Workers == 1..NumWorkers
\* the processes of Pool(processes=n_workers)
Pool == 1..cfg.workers
\* a process outside the pool: it calls segment_recording on its own
Callers == Workers \ Pool

\* rows of the entries table of recording r: ids are unique over the table,
\* entry_number counts from 1
EntryRows(r, n) ==
  [k \in 1..n |-> [id |-> r * (MaxEntries + 1) + k, recording_id |-> r,
                   entry_number |-> k]]

\* what detect_nonsilent reports when it finds n regions: n bursts of 200 ms,
\* one per 400 ms, the first 50 ms into the waveform
DetectedRegions(n) ==
  [k \in 1..n |-> << (k - 1) * 400 + 50, (k - 1) * 400 + 250 >>]

\* len(audio) of a loaded waveform: the last of the most bursts a detector
\* call reports ends 50 ms before the end
AudioLen == cfg.regions * 400 - 100

\* diagnostic streams of the silencedetect run: one silence of 50 ms before
\* each of n sounds of 350 ms, the tool exiting 0
SilenceStream(n) ==
  [returncode |-> 0,
   silence_starts |-> [k \in 1..n |-> (k - 1) * 400],
   silence_ends |-> [k \in 1..n |-> (k - 1) * 400 + 50],
   duration |-> [h |-> 0, mn |-> 0, s |-> (n * 400) \div 1000,
                 cs |-> ((n * 400) % 1000) \div 10]]

\* a waveform that is silent throughout
AllSilentStream ==
  [returncode |-> 0, silence_starts |-> <<0>>, silence_ends |-> <<400>>,
   duration |-> [h |-> 0, mn |-> 0, s |-> 0, cs |-> 40]]

\* the tool exits non-zero on an unreadable input: no Duration line, no
\* silencedetect line
UnparsableStream ==
  [returncode |-> 1, silence_starts |-> <<>>, silence_ends |-> <<>>,
   duration |-> NoDuration]

FfmpegStreams ==
  {UnparsableStream, AllSilentStream} \cup {SilenceStream(n) : n \in 1..cfg.regions}

\* ------------------------------------------------------------------ store
\* SELECT COUNT(*) FROM segments WHERE recording_id=?
SegmentCount(r) == Cardinality({x \in segments : x.recording_id = r})

RowsOf(S, r) == {x \in S : x.recording_id = r}

\* CommitRows without the DELETE
CommitNoDelete(S, r, txn) == S \cup txn

\* CommitRows replacing only the rows of the entries it inserts for
CommitUpsert(S, r, txn) ==
  {x \in S : \A y \in txn : y.entry_id # x.entry_id} \cup txn

\* DELETE FROM segments WHERE recording_id=? and the INSERTs, at commit
CommitRows(S, r, txn) == (S \ RowsOf(S, r)) \cup txn

\* ------------------------------------------------------------ the worker
IdleWorker ==
  [pc |-> "idle", rec |-> 0, use_ffmpeg |-> FALSE, entries |-> <<>>,
   s |-> SearchStart, regions |-> <<>>, i |-> 0, created |-> 0, txn |-> {}]

NoInfo ==
  [returned |-> FALSE, created |-> 0, raised |-> FALSE, detCalled |-> FALSE,
   detFailed |-> FALSE, committed |-> FALSE, nRegions |-> 0, extFailed |-> {},
   warned |-> FALSE, searched |-> FALSE]

\* WorkerPrecheck without the wav_path.exists() test
PrecheckNoWavTest(ents, wav_exists) ==
  IF ents = <<>> THEN "no_entries" ELSE "go"

\* WorkerPrecheck without its two tests
PrecheckNoTests(ents, wav_exists) == "go"

\* WorkerPrecheck with the two tests in the other order
PrecheckWavFirst(ents, wav_exists) ==
  IF ~wav_exists THEN "no_wav"
  ELSE IF ents = <<>> THEN "no_entries"
  ELSE "go"

\* lines 210-218: "no_entries" returns 0, "no_wav" returns -1
WorkerPrecheck(ents, wav_exists) ==
  IF ents = <<>> THEN "no_entries"
  ELSE IF ~wav_exists THEN "no_wav"
  ELSE "go"

\* entry["entry_number"] if entry["entry_number"] is not None else i + 1
\* (None is 0 here; i is already 1-based)
EntryNum(entry, i) == IF entry.entry_number # 0 THEN entry.entry_number ELSE i

\* f"{entry_num:03d}" of an entry number that is not negative
Fmt03(n) ==
  IF n < 10 THEN "00" \o ToString(n)
  ELSE IF n < 100 THEN "0" \o ToString(n)
  ELSE ToString(n)

\* SegPath without the name of the recording
SegPathNumberOnly(r, entry_num) ==
  << recTable[r].language_code, "segments", Fmt03(entry_num) \o ".wav" >>

\* lines 220 and 277-278 (335-336): seg_dir is data_dir / language_code /
\* "segments", seg_name is f"{audio_filename}_{entry_num:03d}.wav"
SegPath(r, entry_num) ==
  << recTable[r].language_code, "segments",
     recTable[r].audio_filename \o "_" \o Fmt03(entry_num) \o ".wav" >>

\* LoopContinues without the "if i >= n_entries: break"
LoopNoEntryBreak(i, n_regions, n_entries) == i <= n_regions

\* LoopContinues stopping one region early
LoopStopsEarly(i, n_regions, n_entries) == i < n_regions /\ i <= n_entries

\* the loop header and its "if i >= n_entries: break"
LoopContinues(i, n_regions, n_entries) == i <= n_regions /\ i <= n_entries

\* entries[i]; the code never indexes outside the list
EntryAt(ents, i) == ents[Min(i, Len(ents))]

SegmentRow(r, entry, path, start_ms, end_ms, i) ==
  [entry_id |-> entry.id, recording_id |-> r, segment_file |-> path,
   start_ms |-> start_ms, end_ms |-> end_ms, region |-> i, run |-> hist.runNo]

\* the run a row was written by (not a column of the table): the number of
\* the segment_all call for a pool process, 0 for a segment_recording call
RunOf(w) == IF w \in Pool THEN hist.runNo ELSE 0

\* a process once _segment_recording_worker is over: a pool process takes
\* the next task, a segment_recording call has returned to its caller
Left(w) == IF w \in Pool THEN IdleWorker ELSE [IdleWorker EXCEPT !.pc = "left"]

\* the worker returns (recording_id, audio_filename, created)
Return(w, r, created, inf) ==
  /\ wk' = [wk EXCEPT ![w] = Left(w)]
  /\ resultq' = IF w \in Pool
                THEN Append(resultq, [recording_id |-> r, created |-> created,
                                      raised |-> FALSE])
                ELSE resultq
  /\ info' = [inf EXCEPT ![r].returned = TRUE, ![r].created = created]

\* lines 198-232: the task is taken, entries are read, the WAV is looked for
W_Start(w) ==
  /\ sched.pc = "running"
  /\ sched.queue # <<>>
  /\ wk[w].pc = "idle"
  /\ LET r == Head(sched.queue)
         ents == entries[r]
         pre == WorkerPrecheck(ents, wavExists[r])
     IN /\ sched' = [sched EXCEPT !.queue = Tail(sched.queue)]
        /\ IF pre = "no_entries" THEN Return(w, r, 0, info)
           ELSE IF pre = "no_wav" THEN Return(w, r, -1, info)
           ELSE /\ wk' = [wk EXCEPT ![w] =
                       [IdleWorker EXCEPT
                          !.pc = IF sched.use_ffmpeg THEN "detect" ELSE "load",
                          !.rec = r, !.use_ffmpeg = sched.use_ffmpeg,
                          !.entries = ents]]
                /\ UNCHANGED << resultq, info >>
  /\ UNCHANGED << cfg, recTable, entries, wavExists, segments, files, writeLock, hist, pad, srch, det >>

\* lines 377-398: segment_recording is called for recording r by a process
\* of its own; the worker function runs in that process
R_Start(w, r, use_ffmpeg) ==
  /\ wk[w].pc = "idle"
  /\ LET ents == entries[r]
         pre == WorkerPrecheck(ents, wavExists[r])
     IN IF recTable[r].recording_type # "word-list"
        THEN /\ wk' = [wk EXCEPT ![w] = Left(w)]
             /\ UNCHANGED << resultq, info >>
        ELSE IF pre = "no_entries" THEN Return(w, r, 0, info)
        ELSE IF pre = "no_wav" THEN Return(w, r, -1, info)
        ELSE /\ wk' = [wk EXCEPT ![w] =
                    [IdleWorker EXCEPT
                       !.pc = IF use_ffmpeg THEN "detect" ELSE "load",
                       !.rec = r, !.use_ffmpeg = use_ffmpeg, !.entries = ents]]
             /\ UNCHANGED << resultq, info >>
  /\ UNCHANGED << cfg, recTable, entries, wavExists, segments, files, sched,
                  writeLock, hist, pad, srch, det >>

\* lines 247-252: AudioSegment.from_wav
W_Load(w) ==
  /\ wk[w].pc = "load"
  /\ \E ok \in BOOLEAN :
       IF ok
       THEN /\ wk' = [wk EXCEPT ![w].pc = "detect"]
            /\ UNCHANGED << resultq, info >>
       ELSE Return(w, wk[w].rec, -1, [info EXCEPT ![wk[w].rec].detFailed = TRUE])
  /\ UNCHANGED << cfg, recTable, entries, wavExists, segments, files, sched, writeLock, hist,
                  pad, srch, det >>

\* MismatchWarning without the n_entries * 0.3 term
MismatchAbsoluteOnly(n_regions, n_entries) == Abs(n_regions - n_entries) > 3

\* lines 266 and 320: abs(n - n_entries) > max(3, n_entries * 0.3); the
\* comparison with n_entries * 0.3 is made on tenths
MismatchWarning(n_regions, n_entries) ==
  /\ Abs(n_regions - n_entries) > 3
  /\ 10 * Abs(n_regions - n_entries) > 3 * n_entries

\* NoRegions that lets an empty list through
NoRegionsNever(regions) == FALSE

\* lines 261 and 315: if not chunks / if not regions
NoRegions(regions) == regions = <<>>

\* after the search: lines 174-184 and 261-270 (pydub), 315-324 (ffmpeg)
SearchEnd(w, s, inf) ==
  LET r == wk[w].rec
      regions == IF wk[w].use_ffmpeg THEN s.best_regions
                 ELSE PydubPadAll(s.best_regions, AudioLen)
  IN IF NoRegions(regions)
     THEN Return(w, r, 0, [inf EXCEPT ![r].searched = TRUE])
     ELSE /\ wk' = [wk EXCEPT ![w].pc = "delete", ![w].s = SearchStart,
                              ![w].regions = regions]
          /\ info' = [inf EXCEPT
                        ![r].searched = TRUE,
                        ![r].nRegions = Len(regions),
                        ![r].warned = MismatchWarning(Len(regions),
                                                      Len(wk[w].entries))]
          /\ UNCHANGED resultq

\* one detector call of the search loop and the loop's bookkeeping
W_Detect(w) ==
  /\ wk[w].pc = "detect"
  /\ LET r == wk[w].rec
         n_entries == Len(wk[w].entries)
         called == [info EXCEPT ![r].detCalled = TRUE]
         failed == [called EXCEPT ![r].detFailed = TRUE]
     IN \/ \* the detector raises: except Exception -> -1
           Return(w, r, -1, failed)
        \/ \E regs \in IF wk[w].use_ffmpeg
                       THEN {<< FfmpegDetectNonsilent(st), st.returncode # 0 >> :
                                st \in FfmpegStreams}
                       ELSE {<< DetectedRegions(n), FALSE >> : n \in 0..cfg.regions} :
             LET s == AdaptiveStep(wk[w].use_ffmpeg, wk[w].s, regs[1], n_entries)
                 inf == IF regs[2] THEN failed ELSE called
             IN IF s.done
                THEN SearchEnd(w, s, inf)
                ELSE /\ wk' = [wk EXCEPT ![w].s = s]
                     /\ info' = inf
                     /\ UNCHANGED resultq
  /\ UNCHANGED << cfg, recTable, entries, wavExists, segments, files, sched, writeLock, hist,
                  pad, srch, det >>

\* AfterDelete for a connection in autocommit mode
DeleteAutocommit(S, r) == S \ RowsOf(S, r)

\* the committed table once the DELETE of lines 272 and 326 has run: sqlite3
\* opened a transaction before it, so nothing is committed yet
AfterDelete(S, r) == S

\* lines 272 and 326: DELETE opens the write transaction of the connection
W_Delete(w) ==
  /\ wk[w].pc = "delete"
  /\ writeLock = 0
  /\ writeLock' = w
  /\ segments' = AfterDelete(segments, wk[w].rec)
  /\ wk' = [wk EXCEPT ![w].pc = "export", ![w].i = 1, ![w].created = 0,
                      ![w].txn = {}]
  /\ UNCHANGED << cfg, recTable, entries, wavExists, files, sched, resultq, info,
                  hist, pad, srch, det >>

\* ExtractFailed leaving the loop
ExtractFailedBreaks(wrec) == [wrec EXCEPT !.i = Len(wrec.regions) + 1]

\* ExtractFailed handing the next region to the same entry
ExtractFailedShifts(wrec) ==
  [wrec EXCEPT !.regions = SubSeq(wrec.regions, 1, wrec.i - 1) \o
                           SubSeq(wrec.regions, wrec.i + 1, Len(wrec.regions))]

\* lines 354-356: the extraction exited non-zero: continue
ExtractFailed(wrec) == [wrec EXCEPT !.i = wrec.i + 1]

\* one iteration of the export loop: lines 274-289 (pydub), 332-366 (ffmpeg)
W_Export(w) ==
  /\ wk[w].pc = "export"
  /\ LET r == wk[w].rec
         i == wk[w].i
         ents == wk[w].entries
         entry == EntryAt(ents, i)
         path == SegPath(r, EntryNum(entry, i))
         padded == IF wk[w].use_ffmpeg THEN FfmpegPad(wk[w].regions[i])
                   ELSE wk[w].regions[i]
         row == [SegmentRow(r, entry, path, padded[1], padded[2], i)
                   EXCEPT !.run = RunOf(w)]
     IN /\ LoopContinues(i, Len(wk[w].regions), Len(ents))
        /\ \/ \* the clip is written and the row inserted
              /\ files' = files \cup {[file |-> path, recording_id |-> r, region |-> i]}
              /\ wk' = [wk EXCEPT ![w].i = i + 1, ![w].created = @ + 1,
                                  ![w].txn = @ \cup {row}]
              /\ UNCHANGED << info, resultq, writeLock, sched >>
           \/ \* ffmpeg exits non-zero: continue
              /\ wk[w].use_ffmpeg
              /\ wk' = [wk EXCEPT ![w] = ExtractFailed(wk[w])]
              /\ info' = [info EXCEPT ![r].extFailed = @ \cup {i}]
              /\ UNCHANGED << files, resultq, writeLock, sched >>
           \/ \* chunk.export raises: the exception leaves the worker, the
              \* open transaction is rolled back
              /\ ~wk[w].use_ffmpeg
              /\ wk' = [wk EXCEPT ![w] = Left(w)]
              /\ writeLock' = 0
              /\ resultq' = IF w \in Pool
                            THEN Append(resultq, [recording_id |-> r, created |-> 0,
                                                  raised |-> TRUE])
                            ELSE resultq
              /\ info' = [info EXCEPT ![r].raised = TRUE]
              /\ UNCHANGED << files, sched >>
  /\ UNCHANGED << cfg, recTable, entries, wavExists, segments, hist, pad, srch, det >>

\* lines 291-293 and 368-370: commit, close, return
W_Commit(w) ==
  /\ wk[w].pc = "export"
  /\ ~LoopContinues(wk[w].i, Len(wk[w].regions), Len(wk[w].entries))
  /\ segments' = CommitRows(segments, wk[w].rec, wk[w].txn)
  /\ writeLock' = 0
  /\ Return(w, wk[w].rec, wk[w].created, [info EXCEPT ![wk[w].rec].committed = TRUE])
  /\ UNCHANGED << cfg, recTable, entries, wavExists, files, sched, hist, pad, srch, det >>


\* ---------------------------------------------------------- segment_all
\* the ids of the recordings table, in rowid order
Recordings == [k \in 1..NumRecs |-> k]

\* str.upper() on the codes a caller passes
Upper(code) ==
  CASE code = "eng" -> "ENG"
    [] code = "fra" -> "FRA"
    [] OTHER -> code

\* CandidateQuery without the downloaded test
QueryAnyDownloaded(language_code) ==
  SelectSeq(Recordings,
            LAMBDA r : /\ recTable[r].recording_type = "word-list"
                       /\ \/ language_code = ""
                          \/ recTable[r].language_code = Upper(language_code))

\* the rows the query of lines 413-421 returns: recording_type = 'word-list'
\* AND downloaded = 1, and language_code = language_code.upper() when a code
\* is given (None and the empty string are "")
CandidateQuery(language_code) ==
  SelectSeq(Recordings,
            LAMBDA r : /\ recTable[r].recording_type = "word-list"
                       /\ recTable[r].downloaded = 1
                       /\ \/ language_code = ""
                          \/ recTable[r].language_code = Upper(language_code))

\* FilterLoop that never reads the existing count
FilterNothing(recordings, force, to_process, skipped_total) ==
  [to_process |-> recordings, skipped_total |-> 0]

\* FilterLoop that counts one per skipped recording
FilterCountsOne(recordings, force, to_process, skipped_total) ==
  LET Skipped(r) == ~force /\ SegmentCount(r) > 0
  IN [to_process |-> SelectSeq(recordings, LAMBDA r : ~Skipped(r)),
      skipped_total |-> Len(SelectSeq(recordings, Skipped))]

\* lines 424-434: the filter loop over recordings
RECURSIVE FilterLoop(_, _, _, _)
FilterLoop(recordings, force, to_process, skipped_total) ==
  IF recordings = <<>>
  THEN [to_process |-> to_process, skipped_total |-> skipped_total]
  ELSE LET rec == Head(recordings)
           existing == SegmentCount(rec)
       IN IF ~force /\ existing > 0
          THEN FilterLoop(Tail(recordings), force, to_process,
                          skipped_total + existing)
          ELSE FilterLoop(Tail(recordings), force, Append(to_process, rec),
                          skipped_total)

\* TotalNewAdd without the "if created > 0"
TotalNewAddAlways(total_new, created) == total_new + created

\* TotalNewAdd that counts a failure as one segment
TotalNewAddAbs(total_new, created) == total_new + Abs(created)

\* TotalNewAdd that keeps the last positive count
TotalNewOverwrite(total_new, created) ==
  IF created > 0 THEN created ELSE total_new

\* lines 456-458: if created > 0: total_new += created
TotalNewAdd(total_new, created) ==
  IF created > 0 THEN total_new + created ELSE total_new

IdleSched ==
  [pc |-> "idle", force |-> FALSE, use_ffmpeg |-> FALSE, language_code |-> "",
   to_process |-> <<>>, queue |-> <<>>, skipped_total |-> 0, total_new |-> 0,
   collected |-> 0, order |-> <<>>, total |-> 0]

\* segment_all is called: lines 410-449, up to the start of the pool
S_Start(force, use_ffmpeg, language_code) ==
  /\ sched.pc \in {"idle", "returned", "raised"}
  /\ hist.runNo < cfg.runs
  /\ LET f == FilterLoop(CandidateQuery(language_code), force, <<>>, 0)
     IN sched' =
          [IdleSched EXCEPT
             !.pc = IF f.to_process = <<>> THEN "returned" ELSE "running",
             !.force = force, !.use_ffmpeg = use_ffmpeg,
             !.language_code = language_code,
             !.to_process = f.to_process, !.queue = f.to_process,
             !.skipped_total = f.skipped_total,
             !.total = IF f.to_process = <<>> THEN f.skipped_total ELSE 0]
  /\ hist' = [runNo |-> hist.runNo + 1, before |-> segments,
              filesBefore |-> files,
              prevForce |-> sched.force, prevEnd |-> sched.pc]
  /\ info' = [r \in Recs |-> NoInfo]
  /\ UNCHANGED << cfg, recTable, entries, wavExists, segments, files, wk, resultq, writeLock,
                  pad, srch, det >>

\* lines 453-464: imap_unordered yields the next finished task; after the
\* last one the total is formed and returned.  A task that raised re-raises
\* here: the with block terminates the pool and segment_all does not return.
S_Collect ==
  /\ sched.pc = "running"
  /\ resultq # <<>>
  /\ LET res == Head(resultq)
         total_new == TotalNewAdd(sched.total_new, res.created)
         collected == sched.collected + 1
     IN IF res.raised
        THEN /\ sched' = [sched EXCEPT !.pc = "raised", !.queue = <<>>]
             /\ wk' = [w \in Workers |-> IF w \in Pool THEN IdleWorker ELSE wk[w]]
             /\ resultq' = <<>>
             /\ writeLock' = IF writeLock \in Pool THEN 0 ELSE writeLock
        ELSE /\ sched' =
                  [sched EXCEPT
                     !.total_new = total_new, !.collected = collected,
                     !.order = Append(@, res.recording_id),
                     !.pc = IF collected = Len(sched.to_process)
                            THEN "returned" ELSE "running",
                     !.total = IF collected = Len(sched.to_process)
                               THEN sched.skipped_total + total_new ELSE 0]
             /\ resultq' = Tail(resultq)
             /\ UNCHANGED << wk, writeLock >>
  /\ UNCHANGED << cfg, recTable, entries, wavExists, segments, files, info, hist, pad, srch, det >>

\* ------------------------------------------------- stand-alone harnesses
NoPad == [pc |-> "off", use_ffmpeg |-> FALSE, regions |-> <<>>, audio_len |-> 0,
          out |-> <<>>]
NoSearch == [pc |-> "off", use_ffmpeg |-> FALSE, target_count |-> 0,
             s |-> SearchStart, first_diff |-> INF, calls |-> 0,
             called |-> <<>>, firstAt |-> <<>>, tied |-> FALSE]

\* a downloaded English word-list recording
WordList == [recording_type |-> "word-list", downloaded |-> 1, language_code |-> "ENG"]

\* audio_filename of recording r: the name of each recording is the stem of
\* the first segment file of the one before it
RECURSIVE AudioFilename(_)
AudioFilename(r) ==
  IF r = 1 THEN "abk_word-list_1970_01" ELSE AudioFilename(r - 1) \o "_001"

\* the row of recording r in the recordings table
Named(row, r) ==
  [recording_type |-> row.recording_type, downloaded |-> row.downloaded,
   language_code |-> row.language_code, audio_filename |-> AudioFilename(r)]

NoDet == [pc |-> "off", stream |-> UnparsableStream, out |-> <<>>]

\* the store and the disk before the first run: no segment rows yet
SysStart ==
  /\ segments = {}
  /\ files = {}
  /\ sched = IdleSched
  /\ wk = [w \in Workers |-> IdleWorker]
  /\ resultq = <<>>
  /\ writeLock = 0
  /\ info = [r \in Recs |-> NoInfo]
  /\ hist = [runNo |-> 0, before |-> {}, filesBefore |-> {}, prevForce |-> FALSE,
             prevEnd |-> "idle"]
  /\ pad = NoPad
  /\ srch = NoSearch
  /\ det = NoDet

\* every recording is a candidate, with up to MaxEntries entries and its WAV
\* present or not
SysInit ==
  /\ SysStart
  /\ recTable = [r \in Recs |-> Named(WordList, r)]
  /\ entries \in [Recs -> UNION {{EntryRows(r, n) : n \in 0..MaxEntries} : r \in Recs}]
  /\ \A r \in Recs : \A k \in DOMAIN entries[r] : entries[r][k].recording_id = r
  /\ wavExists \in [Recs -> BOOLEAN]

\* one call of segment_all over a pool of NumWorkers processes
Init ==
  /\ SysInit
  /\ cfg = [workers |-> NumWorkers, runs |-> 1, languages |-> {""},
            variants |-> BOOLEAN, regions |-> MaxRegions]

\* MaxRuns calls of segment_all, one after the other, each with workers=1
InitRuns ==
  /\ SysInit
  /\ cfg = [workers |-> 1, runs |-> MaxRuns, languages |-> {""},
            variants |-> BOOLEAN, regions |-> MaxRegions]

Next ==
  \/ \E force \in BOOLEAN, use_ffmpeg \in cfg.variants,
        language_code \in cfg.languages :
          S_Start(force, use_ffmpeg, language_code)
  \/ \E w \in Pool : W_Start(w)
  \/ \E w \in Pool : W_Load(w)
  \/ \E w \in Pool : W_Detect(w)
  \/ \E w \in Pool : W_Delete(w)
  \/ \E w \in Pool : W_Export(w)
  \/ \E w \in Pool : W_Commit(w)
  \/ S_Collect

Spec == Init /\ [][Next]_vars
SpecRuns == InitRuns /\ [][Next]_vars

\* rows of the recordings table: recording_type as language_parser.py
\* lines 138-140 sets it (or NULL, here "")
RecordingRows ==
  [recording_type : {"word-list", "narrative", ""}, downloaded : {0, 1},
   language_code : {"ENG", "FRA"}]

\* segment_all called MaxRuns times, with or without a language code, over
\* recordings of every type, downloaded or not, of two languages; each has
\* one entry and its WAV
InitFilter ==
  /\ SysStart
  /\ \E t \in [Recs -> RecordingRows] :
       recTable = [r \in Recs |-> Named(t[r], r)]
  /\ entries = [r \in Recs |-> EntryRows(r, 1)]
  /\ wavExists = [r \in Recs |-> TRUE]
  /\ cfg = [workers |-> 1, runs |-> MaxRuns, languages |-> {"", "eng", "FRA"},
            variants |-> {FALSE}, regions |-> 1]

SpecFilter == InitFilter /\ [][Next]_vars

\* one call over a single candidate recording with many entries, the
\* detector reporting up to MaxWarnRegions regions; the ffmpeg variant on the
\* short entry lists only
InitOne ==
  /\ SysStart
  /\ recTable = [r \in Recs |->
                   IF r = 1 THEN Named(WordList, r)
                   ELSE Named([WordList EXCEPT !.recording_type = "narrative"], r)]
  /\ \E use_ffmpeg \in BOOLEAN :
       \E n \in 1..(IF use_ffmpeg THEN MaxEntries ELSE MaxWarnEntries) :
         /\ entries = [r \in Recs |-> IF r = 1 THEN EntryRows(1, n) ELSE <<>>]
         /\ cfg = [workers |-> 1, runs |-> 1, languages |-> {""},
                   variants |-> {use_ffmpeg}, regions |-> MaxWarnRegions]
  /\ wavExists = [r \in Recs |-> TRUE]

SpecOne == InitOne /\ [][Next]_vars

\* the entries of recording r as the worker's query returns them (ORDER BY
\* entry_number, NULL first): nums[k] is the entry_number of the k-th row,
\* 0 when the column is NULL
NumberedRows(r, nums) ==
  [k \in 1..Len(nums) |-> [id |-> r * (MaxEntries + 1) + k, recording_id |-> r,
                           entry_number |-> nums[k]]]

\* one candidate recording whose entries carry any entry_number: the column
\* is nullable and not unique
InitNumbers ==
  /\ SysStart
  /\ recTable = [r \in Recs |->
                   IF r = 1 THEN Named(WordList, r)
                   ELSE Named([WordList EXCEPT !.recording_type = "narrative"], r)]
  /\ \E n \in 1..MaxEntries : \E nums \in [1..n -> 0..MaxEntries] :
       /\ \A k \in 1..(n - 1) : nums[k] <= nums[k + 1]
       /\ entries = [r \in Recs |-> IF r = 1 THEN NumberedRows(1, nums) ELSE <<>>]
  /\ cfg = [workers |-> 1, runs |-> 1, languages |-> {""},
            variants |-> BOOLEAN, regions |-> MaxRegions]
  /\ wavExists = [r \in Recs |-> TRUE]

SpecNumbers == InitNumbers /\ [][Next]_vars

\* one call of segment_all with workers=1 and, in a process of its own, one
\* call of segment_recording
InitTwo ==
  /\ SysInit
  /\ cfg = [workers |-> 1, runs |-> 1, languages |-> {""},
            variants |-> BOOLEAN, regions |-> MaxEntries]

NextTwo ==
  \/ \E force \in BOOLEAN, use_ffmpeg \in cfg.variants,
        language_code \in cfg.languages :
          S_Start(force, use_ffmpeg, language_code)
  \/ \E w \in Callers, r \in Recs, use_ffmpeg \in cfg.variants :
       R_Start(w, r, use_ffmpeg)
  \/ \E w \in Pool : W_Start(w)
  \/ \E w \in Workers : W_Load(w)
  \/ \E w \in Workers : W_Detect(w)
  \/ \E w \in Workers : W_Delete(w)
  \/ \E w \in Workers : W_Export(w)
  \/ \E w \in Workers : W_Commit(w)
  \/ S_Collect

SpecTwo == InitTwo /\ [][NextTwo]_vars


\* ============================================= padding on its own (SpecPad)
TimePoints == {50 * k : k \in 0..MaxTime}

\* a Duration line declaring ms milliseconds (ffmpeg prints centiseconds)
DurationOf(ms) ==
  [h |-> 0, mn |-> 0, s |-> ms \div 1000, cs |-> (ms % 1000) \div 10]

\* region lists detect_nonsilent can report for a waveform of audio_len ms:
\* one or two ranges inside the waveform, in order, not overlapping
PydubInputs ==
  LET Ranges(len) == {r \in TimePoints \X TimePoints : r[1] < r[2] /\ r[2] <= len}
  IN UNION {
       {[pc |-> "in", use_ffmpeg |-> FALSE, regions |-> <<a>>, audio_len |-> len,
         out |-> <<>>] : a \in Ranges(len)}
       \cup
       {[pc |-> "in", use_ffmpeg |-> FALSE, regions |-> <<a, b>>,
         audio_len |-> len, out |-> <<>>] :
          <<a, b>> \in {x \in Ranges(len) \X Ranges(len) : x[1][2] <= x[2][1]}}
       : len \in TimePoints \ {0} }

\* parsed diagnostic streams: up to two silence_start values, up to two
\* silence_end values (a silence_end may be missing), a Duration line or none
EventLists == {<<>>} \cup {<<a>> : a \in TimePoints}
                \cup {<<a, b>> : <<a, b>> \in TimePoints \X TimePoints}

PadStreams ==
  [returncode : {0}, silence_starts : EventLists, silence_ends : EventLists,
   duration : {NoDuration} \cup {DurationOf(t) : t \in TimePoints \ {0}}]

FfmpegInputs ==
  {[pc |-> "in", use_ffmpeg |-> TRUE, regions |-> FfmpegDetectNonsilent(st),
    audio_len |-> 0, out |-> <<>>] : st \in PadStreams}

\* no scheduler, no worker: the system part stays as it is
SysOff ==
  /\ cfg = [workers |-> 0, runs |-> 0, languages |-> {}, variants |-> {},
            regions |-> 0]
  /\ recTable = [r \in Recs |-> Named(WordList, r)]
  /\ entries = [r \in Recs |-> <<>>]
  /\ wavExists = [r \in Recs |-> FALSE]
  /\ segments = {}
  /\ files = {}
  /\ sched = IdleSched
  /\ wk = [w \in Workers |-> IdleWorker]
  /\ resultq = <<>>
  /\ writeLock = 0
  /\ info = [r \in Recs |-> NoInfo]
  /\ hist = [runNo |-> 0, before |-> {}, filesBefore |-> {}, prevForce |-> FALSE,
             prevEnd |-> "idle"]

InitPad ==
  /\ SysOff /\ srch = NoSearch /\ det = NoDet
  /\ pad \in PydubInputs \cup FfmpegInputs

\* lines 178-182: the padded regions of _pydub_adaptive_split
P_Pydub ==
  /\ pad.pc = "in" /\ ~pad.use_ffmpeg
  /\ pad' = [pad EXCEPT !.pc = "out",
                        !.out = PydubPadAll(pad.regions, pad.audio_len)]
  /\ UNCHANGED << sysVars, srch, det >>

\* lines 340-341 for every region of the list
P_Ffmpeg ==
  /\ pad.pc = "in" /\ pad.use_ffmpeg
  /\ pad' = [pad EXCEPT !.pc = "out",
                        !.out = [k \in 1..Len(pad.regions) |-> FfmpegPad(pad.regions[k])]]
  /\ UNCHANGED << sysVars, srch, det >>

NextPad == P_Pydub \/ P_Ffmpeg
SpecPad == InitPad /\ [][NextPad]_vars

\* ======================================= the search on its own (SpecSearch)
\* the stream of a silencedetect run that finds n sounds with grid pair gi:
\* each pair puts the end of a silence at a slightly different time
StreamOfCount(n, gi) ==
  IF n = 0 THEN AllSilentStream
  ELSE [SilenceStream(n) EXCEPT
          !.silence_ends = [k \in 1..n |-> SilenceStream(n).silence_ends[k] + gi]]

\* the ranges detect_nonsilent finds with grid pair gi when it finds n sounds
RangesOfCount(n, gi) ==
  [k \in 1..n |-> << DetectedRegions(n)[k][1] + gi, DetectedRegions(n)[k][2] >>]

\* what the detector of the variant returns
DetectorOutput(use_ffmpeg, n, gi) ==
  IF use_ffmpeg THEN FfmpegDetectNonsilent(StreamOfCount(n, gi))
  ELSE RangesOfCount(n, gi)

\* the (threshold, minimum silence in ms) the detector is called with
ParamsOf(use_ffmpeg, gi) ==
  IF use_ffmpeg
  THEN << _FFMPEG_PARAM_GRID[gi].silence_thresh_db,
          _FFMPEG_PARAM_GRID[gi].min_silence_len_s >>
  ELSE << _PARAM_GRID[gi].silence_thresh, _PARAM_GRID[gi].min_silence_len >>

\* the diffs a call can produce
Diffs == 0..Max(MaxTarget, MaxCount)
NotSeen == [at |-> 0, n |-> 0]

InitSearch ==
  /\ SysOff
  /\ pad = NoPad
  /\ det = NoDet
  /\ srch \in {[pc |-> "run", use_ffmpeg |-> v, target_count |-> t,
                s |-> SearchStart, first_diff |-> INF, calls |-> 0,
                called |-> <<>>, firstAt |-> [d \in Diffs |-> NotSeen],
                tied |-> FALSE] :
                v \in BOOLEAN, t \in 1..MaxTarget}

\* the detector is called for grid pair srch.s.gi and finds n sounds; the
\* history keeps the parameters of each call, for each diff the first call
\* that produced it, and whether a call repeated the least diff before it
SearchCall(n) ==
  LET gi == srch.s.gi
      regions == DetectorOutput(srch.use_ffmpeg, n, gi)
      s == AdaptiveStep(srch.use_ffmpeg, srch.s, regions, srch.target_count)
      diff == Abs(Len(regions) - srch.target_count)
  IN srch' = [srch EXCEPT
                !.s = s,
                !.pc = IF s.done THEN "done" ELSE "run",
                !.calls = @ + 1,
                !.called = Append(@, ParamsOf(srch.use_ffmpeg, gi)),
                !.firstAt = IF @[diff] = NotSeen
                            THEN [@ EXCEPT ![diff] = [at |-> gi, n |-> Len(regions)]]
                            ELSE @,
                !.tied = @ \/ ( /\ srch.firstAt[diff] # NotSeen
                                /\ \A d \in Diffs :
                                     srch.firstAt[d] # NotSeen => diff <= d ),
                !.first_diff = IF srch.calls = 0 THEN diff ELSE @]

\* lines 132-139
A_Ffmpeg ==
  /\ srch.pc = "run" /\ srch.use_ffmpeg
  /\ \E n \in 0..MaxCount : SearchCall(n)
  /\ UNCHANGED << sysVars, pad, det >>

\* lines 159-172
A_Pydub ==
  /\ srch.pc = "run" /\ ~srch.use_ffmpeg
  /\ \E n \in 0..MaxCount : SearchCall(n)
  /\ UNCHANGED << sysVars, pad, det >>

NextSearch == A_Ffmpeg \/ A_Pydub
SpecSearch == InitSearch /\ [][NextSearch]_vars


\* ================================ the ffmpeg detector on its own (SpecDetect)
\* the elements of a set of times, in increasing order
RECURSIVE SortedSeq(_)
SortedSeq(T) ==
  IF T = {} THEN <<>>
  ELSE LET m == CHOOSE t \in T : \A u \in T : t <= u
       IN << m >> \o SortedSeq(T \ {m})

\* streams of a run in which every silence has its silence_start and its
\* silence_end line: up to MaxSilences silences, one after the other, the
\* tool exiting 0; the Duration line is there or not, and no silence ends
\* after the duration it declares
PairedStreams ==
  LET Events == {T \in SUBSET TimePoints :
                   Cardinality(T) \in {2 * k : k \in 0..MaxSilences}}
      Starts(q) == [k \in 1..(Len(q) \div 2) |-> q[2 * k - 1]]
      Ends(q) == [k \in 1..(Len(q) \div 2) |-> q[2 * k]]
      Durations(T) == {NoDuration} \cup
                      {DurationOf(t) : t \in {u \in TimePoints \ {0} :
                                                \A e \in T : e <= u}}
  IN UNION {{[returncode |-> 0, silence_starts |-> Starts(SortedSeq(T)),
              silence_ends |-> Ends(SortedSeq(T)), duration |-> d] :
               d \in Durations(T)} : T \in Events}

InitDetect ==
  /\ SysOff /\ pad = NoPad /\ srch = NoSearch
  /\ det \in {[pc |-> "in", stream |-> st, out |-> <<>>] : st \in PairedStreams}

\* lines 72-115: the stream is parsed and the regions are built
D_Detect ==
  /\ det.pc = "in"
  /\ det' = [det EXCEPT !.pc = "out", !.out = FfmpegDetectNonsilent(det.stream)]
  /\ UNCHANGED << sysVars, pad, srch >>

NextDetect == D_Detect
SpecDetect == InitDetect /\ [][NextDetect]_vars

\* streams of a run whose last silence has no silence_end line: the silence
\* is still open when the diagnostic stream ends
UnendedStreams ==
  {[st EXCEPT !.silence_ends = SubSeq(st.silence_ends, 1,
                                      Len(st.silence_ends) - 1)] :
     st \in {p \in PairedStreams : p.silence_starts # <<>>}}

\* every sequence of parsed events: all silences paired, or the last one open
InitDetectAny ==
  /\ SysOff /\ pad = NoPad /\ srch = NoSearch
  /\ det \in {[pc |-> "in", stream |-> st, out |-> <<>>] :
               st \in PairedStreams \cup UnendedStreams}

SpecDetectAny == InitDetectAny /\ [][NextDetect]_vars


\* ================================================================== claims
SegRows(r) == RowsOf(segments, r)
PriorRows(r) == RowsOf(hist.before, r)
OpenRows == UNION {wk[w].txn : w \in Workers}
Paired(r) == Min(info[r].nRegions, Len(entries[r]))

\* C1 as stated: a recording that reached the commit with R regions and E
\* entries has exactly min(R, E) segment rows, in both variants, and the k-th
\* of them links the k-th entry to the k-th region.
PositionalPairing ==
  \A r \in Recs :
    info[r].committed =>
      /\ Cardinality(SegRows(r)) = Paired(r)
      /\ \A k \in 1..Paired(r) :
           \E x \in SegRows(r) : x.entry_id = entries[r][k].id /\ x.region = k

\* C1 amended: the rows of a recording that reached the commit are exactly one
\* per position k <= min(R, E) whose export succeeded, each linking the k-th
\* entry to the k-th region; the pydub variant has no failed position, so it
\* stores exactly min(R, E) rows, the ffmpeg variant min(R, E) less the
\* positions whose extraction exited non-zero.
PositionalPairingButSkipped ==
  \A r \in Recs :
    info[r].committed =>
      LET kept == (1..Paired(r)) \ info[r].extFailed
      IN /\ ~sched.use_ffmpeg => info[r].extFailed = {}
         /\ info[r].extFailed \subseteq 1..Paired(r)
         /\ Cardinality(SegRows(r)) = Paired(r) - Cardinality(info[r].extFailed)
         /\ \A x \in SegRows(r) :
              x.region \in kept /\ x.entry_id = entries[r][x.region].id
         /\ \A k \in kept : \E x \in SegRows(r) : x.region = k

\* C1 witness: an ffmpeg run committed a recording with more regions than
\* entries, one extraction failed and another row was stored.
PairingWitness ==
  \E r \in Recs :
    /\ info[r].committed /\ sched.use_ffmpeg
    /\ info[r].nRegions > Len(entries[r])
    /\ info[r].extFailed # {} /\ SegRows(r) # {}

\* C2 as stated: once a forced run has processed a recording that had segment
\* rows, whatever the outcome, every row of the recording is of this run and
\* no entry has two rows.
SupersedeWhateverOutcome ==
  \A r \in Recs :
    (sched.force /\ info[r].returned /\ PriorRows(r) # {}) =>
      /\ \A x \in SegRows(r) : x.run = hist.runNo
      /\ \A x, y \in SegRows(r) : x.entry_id = y.entry_id => x = y

\* C2 amended: once a forced run has processed a recording that had segment
\* rows and the attempt reached its commit, every row of the recording is of
\* this run and no entry has two rows.
SupersedeOnCommit ==
  \A r \in Recs :
    (sched.force /\ info[r].committed /\ PriorRows(r) # {}) =>
      /\ \A x \in SegRows(r) : x.run = hist.runNo
      /\ \A x, y \in SegRows(r) : x.entry_id = y.entry_id => x = y

\* C2 witness: a forced second run committed new rows for a recording that
\* had rows of the first run.
SupersedeWitness ==
  \E r \in Recs :
    /\ sched.force /\ info[r].committed /\ PriorRows(r) # {}
    /\ SegRows(r) # {} /\ hist.runNo = 2

TwoRunsNoForce ==
  /\ hist.runNo >= 2 /\ hist.prevEnd = "returned" /\ ~hist.prevForce
  /\ ~sched.force /\ sched.pc = "returned"

InSeq(x, q) == \E k \in DOMAIN q : q[k] = x

\* C3 as stated: after two runs in a row without force, every recording has
\* the rows it had after the first run, and the second run created none of
\* its segments.
RerunIdempotent ==
  TwoRunsNoForce =>
    \A r \in Recs :
      /\ SegRows(r) = PriorRows(r)
      /\ ~(info[r].returned /\ info[r].created > 0)

\* C3 amended: after two runs in a row without force, every recording that
\* had at least one row after the first run has the same rows, was not
\* dispatched to a worker by the second run, and its rows are counted in
\* skipped_total.
RerunIdempotentWhenSegmented ==
  TwoRunsNoForce =>
    /\ \A r \in Recs :
         PriorRows(r) # {} =>
           /\ SegRows(r) = PriorRows(r)
           /\ ~InSeq(r, sched.to_process)
           /\ ~info[r].returned /\ ~info[r].detCalled
    /\ sched.skipped_total = Cardinality(hist.before)

\* C3 witness: the second unforced run returned and skipped a recording that
\* the first run had segmented.
RerunWitness ==
  /\ TwoRunsNoForce
  /\ \E r \in Recs : PriorRows(r) # {} /\ sched.skipped_total > 0

\* C4: a recording with N entries never has more than N segment rows, and no
\* region at a position past the N-th is exported to a file or inserted.
AtMostOnePerEntry ==
  /\ \A r \in Recs : Cardinality(SegRows(r)) <= Len(entries[r])
  /\ \A x \in segments \cup OpenRows : x.region <= Len(entries[x.recording_id])
  /\ \A f \in files : f.region <= Len(entries[f.recording_id])

\* C4 witness: a recording with more regions than entries was committed with
\* one row per entry.
ExtraRegionsWitness ==
  \E r \in Recs :
    /\ info[r].committed /\ info[r].nRegions > Len(entries[r])
    /\ Cardinality(SegRows(r)) = Len(entries[r])

\* C5: every padded region starts at or after 0 and at or before its region's
\* start, ends at or after its region's end, and does not start after it
\* ends; pydub caps the end at len(audio), ffmpeg adds the guard uncapped.
PaddingBounds ==
  pad.pc = "out" =>
    /\ Len(pad.out) = Len(pad.regions)
    /\ \A k \in DOMAIN pad.regions :
         LET start == pad.regions[k][1]
             end == pad.regions[k][2]
             padded_start == pad.out[k][1]
             padded_end == pad.out[k][2]
         IN /\ 0 <= padded_start /\ padded_start <= start
            /\ padded_end >= end
            /\ padded_start <= padded_end
            /\ padded_end = IF pad.use_ffmpeg THEN end + 100
                            ELSE Min(pad.audio_len, end + 100)

\* C5 witness: a pydub region list was padded with the start floored at 0
\* and the end capped at the waveform length.
PaddingWitness ==
  /\ pad.pc = "out" /\ ~pad.use_ffmpeg
  /\ \E k \in DOMAIN pad.regions :
       /\ pad.regions[k][1] > 0 /\ pad.out[k][1] = 0
  /\ \E k \in DOMAIN pad.regions :
       /\ pad.out[k][2] = pad.audio_len
       /\ pad.regions[k][2] + 100 > pad.audio_len

\* C6: the region list the adaptive search returns is no further from the
\* target count than the list of the first grid pair was.
NeverWorseThanFirst ==
  srch.pc = "done" =>
    Abs(Len(srch.s.best_regions) - srch.target_count) <= srch.first_diff

\* C6 witness: a search that went past the first grid pair ended with a list
\* strictly closer to the target than the first one.
BetterThanFirstWitness ==
  /\ srch.pc = "done" /\ srch.calls > 1
  /\ Abs(Len(srch.s.best_regions) - srch.target_count) < srch.first_diff

\* C7: a recording with entries whose WAV is absent is returned with -1, no
\* detector is called for it and no segment row of it is inserted.
MissingSource ==
  \A r \in Recs :
    (entries[r] # <<>> /\ ~wavExists[r]) =>
      /\ info[r].returned => info[r].created = -1
      /\ ~info[r].detCalled /\ ~info[r].committed
      /\ \A w \in Workers : wk[w].rec # r
      /\ \A x \in segments \cup OpenRows : x.recording_id # r

\* C7 witness: the worker returned -1 for a recording with entries and no WAV.
MissingSourceWitness ==
  \E r \in Recs :
    /\ entries[r] # <<>> /\ ~wavExists[r]
    /\ info[r].returned /\ info[r].created = -1

\* C8: a recording without entries is returned with 0, never -1, with or
\* without its WAV, and no detector is called for it.
NoEntries ==
  \A r \in Recs :
    entries[r] = <<>> =>
      /\ info[r].returned => info[r].created = 0
      /\ ~info[r].detCalled /\ ~info[r].detFailed
      /\ \A w \in Workers : wk[w].rec # r

\* C8 witness: the worker returned 0 for a recording with no entries and no WAV.
NoEntriesWitness ==
  \E r \in Recs :
    /\ entries[r] = <<>> /\ ~wavExists[r]
    /\ info[r].returned /\ info[r].created = 0

\* C9 as stated: a recording whose load or detection failed (the detector
\* raised, or the tool exited non-zero leaving no duration and no silence
\* event) is returned with -1, never 0.
DetectionFailureIsSentinel ==
  \A r \in Recs :
    (info[r].returned /\ info[r].detFailed) => info[r].created = -1

SumRecs(f(_)) == SumSeq([k \in 1..NumRecs |-> f(k)])

\* C10: the total segment_all returns is the rows of the recordings it
\* skipped plus the positive counts of the workers; a -1 adds nothing, and
\* every submitted recording was processed.
SchedulerTotal ==
  sched.pc = "returned" =>
    LET Skipped(r) == ~sched.force /\ PriorRows(r) # {}
        Old(r) == IF Skipped(r) THEN Cardinality(PriorRows(r)) ELSE 0
        New(r) == IF ~Skipped(r) /\ info[r].created > 0 THEN info[r].created ELSE 0
    IN /\ sched.total = SumRecs(Old) + SumRecs(New)
       /\ \A r \in Recs : info[r].returned <=> ~Skipped(r)
       /\ sched.skipped_total = SumRecs(Old)
       /\ sched.total_new = SumRecs(New)

\* C10 witness: a run returned in which one worker result was -1 and another
\* recording was segmented and counted.
SchedulerTotalWitness ==
  /\ sched.pc = "returned"
  /\ \E r1, r2 \in Recs :
       /\ info[r1].returned /\ info[r1].created = -1
       /\ info[r2].returned /\ info[r2].created > 0
       /\ sched.total = info[r2].created

\* the files on disk of recording r, now and when the run started
FilesOf(F, r) == {f \in F : f.recording_id = r}

\* C11: in a call without force, a candidate recording that already has
\* k >= 1 segment rows is not dispatched: no worker takes it, no detector
\* runs for it, nothing of it is deleted, inserted or written to disk, and
\* it contributes exactly k to the total the call returns.
ResumeSkipsSegmented ==
  \A r \in Recs :
    ( /\ sched.pc \in {"running", "returned", "raised"}
      /\ ~sched.force
      /\ InSeq(r, CandidateQuery(sched.language_code))
      /\ PriorRows(r) # {} ) =>
        /\ ~InSeq(r, sched.to_process)
        /\ \A w \in Workers : wk[w].rec # r
        /\ info[r] = NoInfo
        /\ SegRows(r) = PriorRows(r)
        /\ \A row \in OpenRows : row.recording_id # r
        /\ FilesOf(files, r) = FilesOf(hist.filesBefore, r)
        /\ sched.pc = "returned" =>
             LET Other(q) ==
                   IF q = r THEN 0
                   ELSE IF InSeq(q, sched.to_process)
                        THEN Max(info[q].created, 0)
                        ELSE Cardinality(PriorRows(q))
             IN sched.total = Cardinality(PriorRows(r)) + SumRecs(Other)

\* C11 witness: a call without force returned after skipping a recording of
\* two rows and segmenting another one; the total is two plus the new rows.
ResumeSkipsWitness ==
  /\ sched.pc = "returned" /\ ~sched.force
  /\ \E r, q \in Recs :
       /\ Cardinality(PriorRows(r)) = 2
       /\ ~InSeq(r, sched.to_process)
       /\ info[q].committed /\ info[q].created > 0
       /\ sched.total = 2 + info[q].created

\* |R - E| > max(3, 0.3 * E), on tenths
CountsFarApart(R, E) == 10 * Abs(R - E) > Max(30, 3 * E)

\* the positions of recording r whose export succeeded
Exported(r) == (1..Paired(r)) \ info[r].extFailed

\* C12 as stated: for a recording whose search returned R regions (R >= 0)
\* against E entries, the warning is emitted exactly when
\* |R - E| > max(3, 0.3 * E), and the first min(R, E) regions are paired with
\* the entries and stored whether or not it is emitted.
WarningAsStated ==
  \A r \in Recs :
    (info[r].returned /\ info[r].detCalled /\ info[r].created # -1) =>
      /\ info[r].warned <=> CountsFarApart(info[r].nRegions, Len(entries[r]))
      /\ info[r].committed =>
           /\ Cardinality(SegRows(r)) = Paired(r)
           /\ \A k \in 1..Paired(r) :
                \E row \in SegRows(r) :
                  row.region = k /\ row.entry_id = entries[r][k].id

\* C12: for a recording whose search returned at least one region the
\* warning is emitted exactly when |R - E| > max(3, 0.3 * E); a search that
\* returns no region emits none.  The warning changes nothing of what is
\* persisted: the recording goes on to its commit, and the rows stored are
\* those of the positions 1..min(R, E) whose export succeeded, the k-th
\* region with the k-th entry.
WarningOnRegions ==
  \A r \in Recs :
    /\ info[r].warned <=>
         (info[r].nRegions >= 1 /\
          CountsFarApart(info[r].nRegions, Len(entries[r])))
    /\ (info[r].warned /\ info[r].returned) => info[r].committed
    /\ info[r].committed =>
         /\ {row.region : row \in SegRows(r)} = Exported(r)
         /\ Cardinality(SegRows(r)) = Cardinality(Exported(r))
         /\ \A row \in SegRows(r) : row.entry_id = entries[r][row.region].id

\* C12 witness: 14 entries against 9 regions (5 > 4.2) gave the warning and
\* the 9 regions were stored with the first 9 entries.
WarningWitness ==
  \E r \in Recs :
    /\ Len(entries[r]) = 14 /\ info[r].nRegions = 9
    /\ info[r].warned /\ info[r].committed
    /\ Cardinality(SegRows(r)) = 9

\* what another connection reads for recording r is the complete set of
\* before the run, or the complete set the worker of this run committed
ReadsWholeSet(r) ==
  \/ SegRows(r) = PriorRows(r)
  \/ /\ info[r].committed
     /\ Cardinality(SegRows(r)) = info[r].created
     /\ \A row \in SegRows(r) : row.run = hist.runNo

\* C13: the DELETE and the INSERTs of a recording are committed together,
\* once: at every moment another connection reads either the complete prior
\* set of the recording or the complete new one (the prior one after a crash
\* in the middle of the exports), and the rows of a recording change in one
\* step only, the commit of its worker.
AllOrNothing ==
  /\ [](\A r \in Recs :
          /\ ReadsWholeSet(r)
          /\ ~info[r].committed => SegRows(r) = PriorRows(r)
          /\ info[r].raised => SegRows(r) = PriorRows(r))
  /\ [][\A r \in Recs :
          SegRows(r)' # SegRows(r) =>
            /\ ~info[r].committed /\ info'[r].committed
            /\ \E w \in Workers :
                 /\ wk[w].rec = r /\ writeLock = w
                 /\ SegRows(r)' = wk[w].txn]_vars

\* C13 witness: in a forced re-run the worker has deleted and inserted inside
\* its transaction, and the earlier rows of the recording are still what is
\* read.
AllOrNothingWitness ==
  \E w \in Workers :
    /\ wk[w].pc = "export" /\ wk[w].txn # {}
    /\ PriorRows(wk[w].rec) # {}
    /\ SegRows(wk[w].rec) = PriorRows(wk[w].rec)
    /\ wk[w].txn \cap SegRows(wk[w].rec) = {}

\* C14 as stated: no error raised while one recording is segmented leaves
\* the worker: each ends in an outcome tuple, so segment_all never stops on
\* an exception, and once every worker has finished it has collected one
\* outcome for every recording it submitted.
ErrorsContained ==
  /\ sched.pc # "raised"
  /\ \A r \in Recs : ~info[r].raised
  /\ \A k \in DOMAIN resultq : ~resultq[k].raised
  /\ sched.pc = "returned" =>
       \A r \in Recs : InSeq(r, sched.to_process) => InSeq(r, sched.order)

\* the rows the outcome of recording r amounts to: its entries, the variant,
\* the regions its search returned and the positions whose extraction failed
OutcomeRows(r) ==
  LET n == info[r].nRegions
      regs == IF sched.use_ffmpeg THEN FfmpegDetectNonsilent(SilenceStream(n))
              ELSE PydubPadAll(DetectedRegions(n), AudioLen)
      Clip(k) == IF sched.use_ffmpeg THEN FfmpegPad(regs[k]) ELSE regs[k]
  IN {SegmentRow(r, entries[r][k], SegPath(r, EntryNum(entries[r][k], k)),
                 Clip(k)[1], Clip(k)[2], k) : k \in Exported(r)}

\* C15: the segments table and the total depend on the outcomes of the
\* recordings only, not on the order in which the workers ran, finished or
\* were collected: each recording has the rows of its own outcome (its prior
\* rows when it did not reach the commit), and the total returned is the sum
\* over the recordings, in whatever order their results arrived.
OrderIndependent ==
  /\ \A r \in Recs :
       SegRows(r) = IF info[r].committed THEN OutcomeRows(r) ELSE PriorRows(r)
  /\ sched.pc = "returned" =>
       LET Counted(r) == IF InSeq(r, sched.to_process)
                         THEN Max(info[r].created, 0)
                         ELSE Cardinality(PriorRows(r))
       IN /\ sched.total = SumRecs(Counted)
          /\ {sched.order[k] : k \in DOMAIN sched.order} =
               {sched.to_process[k] : k \in DOMAIN sched.to_process}

\* C15 witness: recording 2 was submitted after recording 1 and collected
\* before it; both stored rows, of different numbers, and the total is their
\* sum.
OrderWitness ==
  /\ sched.pc = "returned"
  /\ sched.to_process = << 1, 2 >> /\ sched.order = << 2, 1 >>
  /\ info[1].committed /\ info[2].committed
  /\ info[1].created > info[2].created /\ info[2].created > 0
  /\ sched.total = info[1].created + info[2].created

\* recording r is a candidate of a call with this language_code argument
IsCandidate(r, language_code) ==
  /\ recTable[r].recording_type = "word-list"
  /\ recTable[r].downloaded = 1
  /\ language_code \in {"eng", "ENG"} => recTable[r].language_code = "ENG"
  /\ language_code \in {"fra", "FRA"} => recTable[r].language_code = "FRA"

\* C16: a call of segment_all dispatches only recordings of type
\* 'word-list' that are downloaded and, when a language code is given, whose
\* language_code is that code in upper case; no other recording is counted
\* in the total, taken by a worker, deleted from or written to.
OnlyCandidates ==
  sched.pc # "idle" =>
    /\ \A k \in DOMAIN sched.to_process :
         IsCandidate(sched.to_process[k], sched.language_code)
    /\ \A r \in Recs :
         ~IsCandidate(r, sched.language_code) =>
           /\ \A w \in Workers : wk[w].rec # r
           /\ info[r] = NoInfo
           /\ SegRows(r) = PriorRows(r)
           /\ FilesOf(files, r) = FilesOf(hist.filesBefore, r)
           /\ \A row \in OpenRows : row.recording_id # r
    /\ LET Skipped(r) == /\ IsCandidate(r, sched.language_code)
                          /\ ~InSeq(r, sched.to_process)
            Old(r) == IF Skipped(r) THEN Cardinality(PriorRows(r)) ELSE 0
            New(r) == IF InSeq(r, sched.to_process)
                      THEN Max(info[r].created, 0) ELSE 0
        IN /\ sched.skipped_total = SumRecs(Old)
           /\ sched.pc = "returned" => sched.total = SumRecs(Old) + SumRecs(New)

\* C16 witness: a call for "eng" returned; it skipped an English recording
\* with a row and left a French recording alone, whose row of the run before
\* is not in the total.
OnlyCandidatesWitness ==
  /\ sched.pc = "returned" /\ sched.language_code = "eng" /\ ~sched.force
  /\ \E r, q \in Recs :
       /\ recTable[r].language_code = "ENG" /\ IsCandidate(r, "eng")
       /\ recTable[q].language_code = "FRA" /\ IsCandidate(q, "")
       /\ PriorRows(r) # {} /\ PriorRows(q) # {}
       /\ sched.total = Cardinality(PriorRows(r))

\* the diffs of the calls made so far, and the least of them
SeenDiffs == {d \in Diffs : srch.firstAt[d] # NotSeen}
LeastSeen == CHOOSE d \in SeenDiffs : \A e \in SeenDiffs : d <= e

\* C17: the search returns the region list of the first grid pair, in grid
\* order, whose diff is the least of the pairs evaluated: a later pair of
\* equal diff does not replace it; and when no pair came within diff 2 all
\* twelve were evaluated.
ReturnsFirstMinimum ==
  srch.pc = "done" =>
    LET first == srch.firstAt[LeastSeen]
    IN /\ srch.s.best_diff = LeastSeen
       /\ srch.s.best_regions =
            DetectorOutput(srch.use_ffmpeg, first.n, first.at)
       /\ ~srch.use_ffmpeg => srch.s.best_params = first.at
       /\ (\A d \in SeenDiffs : d > 2) => srch.calls = 12

\* C17 witness: all twelve pairs were evaluated; pair 1 gave diff 4, pair 2
\* the least diff 3, a later pair diff 3 again with another region list; the
\* list of pair 2 is returned.
FirstMinimumWitness ==
  /\ srch.pc = "done" /\ srch.calls = 12 /\ srch.tied
  /\ srch.target_count = 4 /\ srch.first_diff = 4
  /\ LeastSeen = 3 /\ srch.firstAt[3] = [at |-> 2, n |-> 1]
  /\ srch.s.best_regions = DetectorOutput(srch.use_ffmpeg, 1, 2)
  /\ \A gi \in 3..12 :
       srch.s.best_regions # DetectorOutput(srch.use_ffmpeg, 1, gi)

\* the k-th pair of the grid: thresholds -45, -40, -35, -30 outermost,
\* minimum silences 300, 200, 150 innermost
GridPair(k) == << -45 + 5 * ((k - 1) \div 3), << 300, 200, 150 >>[((k - 1) % 3) + 1] >>

\* C18: the detector is called with the pairs of the grid in its fixed
\* order, never for a pair after the first one whose diff is at most 2, and
\* at most twelve times: while the search runs fewer than twelve calls were
\* made and the next one can be made, and it has ended after the twelfth or
\* at the first diff of at most 2.
StopsEarly ==
  /\ srch.calls <= 12 /\ Len(srch.called) = srch.calls
  /\ \A k \in 1..srch.calls : srch.called[k] = GridPair(k)
  /\ \A d \in SeenDiffs :
       d <= 2 => (srch.pc = "done" /\ srch.firstAt[d].at = srch.calls)
  /\ srch.pc = "run" => (srch.calls < 12 /\ ENABLED NextSearch)
  /\ srch.pc = "done" =>
       \/ srch.calls = 12
       \/ \E d \in SeenDiffs : d <= 2 /\ srch.firstAt[d].at = srch.calls

\* C18 witness: the search ended at its fifth call, the first with a diff of
\* at most 2 (a diff of exactly 2), made with threshold -40 and 200 ms.
StopsEarlyWitness ==
  /\ srch.pc = "done" /\ srch.calls = 5
  /\ srch.called[5] = << -40, 200 >>
  /\ srch.firstAt[2].at = 5
  /\ srch.s.best_diff = 2

\* the regions between the silences of a stream: from 0 to the first
\* silence_start when that is after 0, then from each silence_end to the
\* next silence_start
GapsOf(st) ==
  LET n == Len(st.silence_starts)
      initial == IF n > 0 /\ st.silence_starts[1] > 0
                 THEN << << 0, st.silence_starts[1] >> >> ELSE << >>
  IN initial \o [i \in 1..(n - 1) |->
                   << st.silence_ends[i], st.silence_starts[i + 1] >>]

\* the declared duration in ms, 0 when the stream declares none
DeclaredMs(st) ==
  IF st.duration = NoDuration THEN 0
  ELSE 3600000 * st.duration.h + 60000 * st.duration.mn
       + 1000 * st.duration.s + 10 * st.duration.cs

FailedExtractionSkipped ==
  \A r \in Recs :
    sched.use_ffmpeg =>
      /\ \A w \in Workers :
           (wk[w].rec = r /\ wk[w].pc = "export") =>
             /\ {row.region : row \in wk[w].txn} =
                  (1..(wk[w].i - 1)) \ info[r].extFailed
             /\ wk[w].created = Cardinality(wk[w].txn)
      /\ (info[r].returned /\ info[r].extFailed # {}) =>
           /\ info[r].committed
           /\ info[r].created = Cardinality(Exported(r))
           /\ info[r].created # -1
      /\ info[r].committed =>
           /\ \A row \in SegRows(r) : row.region \notin info[r].extFailed
           /\ \A k \in Exported(r) : \E row \in SegRows(r) : row.region = k
           /\ Cardinality(SegRows(r)) = info[r].created

\* C20 witness: the extraction of the first region failed and that of the
\* second succeeded; the recording committed one row, of the second region,
\* and segment_all counted 1 for it.
FailedExtractionWitness ==
  /\ sched.use_ffmpeg /\ sched.pc = "returned"
  /\ \E r \in Recs :
       /\ info[r].committed /\ info[r].extFailed = {1}
       /\ info[r].created = 1
       /\ \E row \in SegRows(r) : row.region = 2
       /\ sched.total >= 1

\* C21: when the search of a recording with entries and a source file
\* returns an empty region list, the worker returns count 0 and not -1,
\* reaches no DELETE and no commit, and writes no file and no segment row.
ZeroRegionsIsEmptyOutcome ==
  \A r \in Recs :
    (info[r].searched /\ info[r].nRegions = 0) =>
      /\ Len(entries[r]) > 0 /\ wavExists[r]
      /\ info[r].returned /\ info[r].created = 0
      /\ ~info[r].committed /\ ~info[r].raised
      /\ SegRows(r) = PriorRows(r)
      /\ FilesOf(files, r) = FilesOf(hist.filesBefore, r)
      /\ \A w \in Workers : wk[w].rec # r
      /\ \A row \in OpenRows : row.recording_id # r

\* C21 witness: a forced run over a recording segmented before found no
\* region: it returned with count 0 and the earlier rows are all there.
ZeroRegionsWitness ==
  /\ sched.pc = "returned" /\ sched.force
  /\ \E r \in Recs :
       /\ info[r].searched /\ info[r].nRegions = 0 /\ info[r].created = 0
       /\ PriorRows(r) # {} /\ SegRows(r) = PriorRows(r)
       /\ sched.total = 0

\* the segment file paths the worker of recording r may write
MayWrite(r) ==
  {SegPath(r, EntryNum(entries[r][k], k)) : k \in DOMAIN entries[r]}

\* C22: within a run every recording submitted is taken by one worker, once,
\* and the segment files one worker may write are not those another worker
\* of the run may write: no file is written for two recordings.
NoFileContention ==
  /\ \A w1, w2 \in Workers :
       (w1 # w2 /\ wk[w1].rec # 0) => wk[w1].rec # wk[w2].rec
  /\ \A k1, k2 \in DOMAIN sched.to_process :
       sched.to_process[k1] = sched.to_process[k2] => k1 = k2
  /\ \A r \in Recs :
       /\ InSeq(r, sched.queue) =>
            /\ \A w \in Workers : wk[w].rec # r
            /\ ~info[r].returned /\ ~info[r].raised
       /\ (info[r].returned \/ info[r].raised) => \A w \in Workers : wk[w].rec # r
       /\ (\E w \in Workers : wk[w].rec = r) => InSeq(r, sched.to_process)
  /\ sched.pc = "returned" =>
       /\ Len(sched.order) = Len(sched.to_process)
       /\ \A r \in Recs : InSeq(r, sched.to_process) <=> InSeq(r, sched.order)
  /\ \A r1, r2 \in Recs : r1 # r2 => MayWrite(r1) \cap MayWrite(r2) = {}
  /\ \A f1, f2 \in files : f1.file = f2.file => f1.recording_id = f2.recording_id

\* C22 witness: one worker is exporting and has written the clip of the
\* first entry of its recording while the other worker, holding the regions
\* of another recording whose first entry has the same number, waits for the
\* write lock; the clip is not a file the other worker may write.
NoFileContentionWitness ==
  \E w1, w2 \in Workers :
    /\ wk[w1].pc = "export" /\ wk[w2].pc = "delete"
    /\ wk[w1].rec # wk[w2].rec
    /\ wk[w1].entries[1].entry_number = wk[w2].entries[1].entry_number
    /\ \E f \in files :
         /\ f.recording_id = wk[w1].rec /\ f.region = 1
         /\ f.file \in MayWrite(wk[w1].rec)
         /\ f.file \notin MayWrite(wk[w2].rec)

\* the worker of recording r ended in an outcome that comes before the
\* DELETE: no entries, no source file, a load or detection failure, or an
\* empty search
EndedBeforeDelete(r) ==
  /\ info[r].returned
  /\ \/ entries[r] = << >>
     \/ ~wavExists[r]
     \/ info[r].created = -1
     \/ info[r].searched /\ info[r].nRegions = 0

\* C23: when the worker of a recording ends with no entries (0), a missing
\* source (-1), a load or detection failure (-1) or zero regions (0), the
\* segment rows stored for the recording are exactly those stored before
\* the call: nothing was deleted, nothing inserted.
NonCommittingPreserves ==
  \A r \in Recs :
    EndedBeforeDelete(r) =>
      /\ ~info[r].committed
      /\ info[r].created \in {0, -1}
      /\ SegRows(r) = PriorRows(r)
      /\ \A row \in OpenRows : row.recording_id # r

\* C23 witness: in a forced run the load or the detection of a recording
\* segmented before failed: it returned -1 and its earlier rows are stored
\* unchanged.
NonCommittingWitness ==
  /\ sched.force
  /\ \E r \in Recs :
       /\ info[r].returned /\ info[r].created = -1 /\ wavExists[r]
       /\ Cardinality(PriorRows(r)) = 2
       /\ SegRows(r) = PriorRows(r)

\* the rows stored for the candidates of the call
StoredForCandidates ==
  SumRecs(LAMBDA r : IF IsCandidate(r, sched.language_code)
                     THEN Cardinality(SegRows(r)) ELSE 0)

\* the earlier rows kept by the recordings the call dispatched and whose
\* worker ended without a commit
KeptByUncommitted ==
  SumRecs(LAMBDA r : IF InSeq(r, sched.to_process) /\ ~info[r].committed
                     THEN Cardinality(PriorRows(r)) ELSE 0)

\* C24 as stated: when segment_all returns, with or without force, the
\* total it returns is the number of segment rows then stored for the
\* candidate recordings.
TotalIsStored ==
  sched.pc = "returned" => sched.total = StoredForCandidates

\* C24: when segment_all returns, the total is the number of segment rows
\* stored for the candidate recordings less the earlier rows kept by the
\* dispatched recordings whose worker ended without a commit; without force
\* no dispatched recording has earlier rows, and the total is the number of
\* rows stored.
TotalIsStoredLessKept ==
  sched.pc = "returned" =>
    /\ sched.total = StoredForCandidates - KeptByUncommitted
    /\ ~sched.force =>
         (KeptByUncommitted = 0 /\ sched.total = StoredForCandidates)

\* C24 witness: a forced call returned; the worker of one candidate failed
\* and its earlier row is still stored, another candidate was segmented
\* again; the total counts the new row only.
TotalIsStoredWitness ==
  /\ sched.pc = "returned" /\ sched.force
  /\ \E r, q \in Recs :
       /\ info[r].returned /\ info[r].created = -1 /\ SegRows(r) # {}
       /\ info[q].committed /\ info[q].created = 1
       /\ sched.total = 1 /\ StoredForCandidates = 2

RegionsWellFormed ==
  det.pc = "out" =>
    /\ \A k \in DOMAIN det.out : det.out[k][1] < det.out[k][2]
    /\ \A k, l \in DOMAIN det.out : k < l => det.out[k][2] <= det.out[l][1]

\* C27: the segment rows one segmentation of a recording persists have
\* pairwise distinct segment_file paths, whatever the entry_number of its
\* entries (absent, repeated).
DistinctSegmentFiles ==
  \A r \in Recs : \A a, b \in SegRows(r) :
    (a.run = b.run /\ a.segment_file = b.segment_file) => a = b

\* C28: whatever segment_all and segment_recording runs have worked on a
\* recording, one after the other or at the same time, the committed table
\* holds at most one segment row per entry and the rows of a recording all
\* come from one run.
OneSegmentPerEntry ==
  \A r \in Recs : \A a, b \in SegRows(r) :
    /\ a.run = b.run
    /\ a.entry_id = b.entry_id => a = b

\* C28 witness: a segment_recording call holds the write transaction on a
\* recording and has inserted a row while the pool process of a segment_all
\* run waits to DELETE the rows of the same recording.
TwoWritersWitness ==
  \E c \in Callers, w \in Pool :
    /\ wk[c].pc = "export" /\ wk[c].txn # {} /\ writeLock = c
    /\ wk[w].pc = "delete" /\ wk[w].rec = wk[c].rec

\* C29: in the ffmpeg variant every row, inserted or committed, links the
\* entry at the index of its own region and carries the padded bounds of
\* that region; an entry whose extraction failed has no row, and the
\* regions after it are still paired with the entries of their own index.
PairingKeepsIndex ==
  /\ \A w \in Workers :
       (wk[w].pc = "export" /\ wk[w].use_ffmpeg) =>
         /\ \A row \in wk[w].txn :
              /\ row.entry_id = wk[w].entries[row.region].id
              /\ << row.start_ms, row.end_ms >> =
                   FfmpegPad(wk[w].regions[row.region])
         /\ \A i \in info[wk[w].rec].extFailed : \A row \in wk[w].txn :
              row.entry_id # wk[w].entries[i].id
  /\ \A r \in Recs :
       (sched.use_ffmpeg /\ info[r].committed) =>
         /\ \A row \in SegRows(r) : row.entry_id = entries[r][row.region].id
         /\ \A i \in info[r].extFailed : \A row \in SegRows(r) :
              row.entry_id # entries[r][i].id
         /\ \A j \in Exported(r) : \E row \in SegRows(r) :
              row.region = j /\ row.entry_id = entries[r][j].id

\* C29 witness: in the ffmpeg variant the extraction of region 1 failed and
\* the loop has inserted the row of region 2, for the second entry, with
\* the padded bounds of region 2.
PairingAfterFailureWitness ==
  \E w \in Workers :
    /\ wk[w].pc = "export" /\ wk[w].use_ffmpeg /\ wk[w].i = 3
    /\ info[wk[w].rec].extFailed = {1}
    /\ \E row \in wk[w].txn :
         /\ row.region = 2
         /\ row.entry_id = wk[w].entries[2].id
         /\ << row.start_ms, row.end_ms >> = FfmpegPad(wk[w].regions[2])
         /\ wk[w].txn = {row}

\* C30: when the search ends at a pair whose diff is at most 2, the list it
\* returns is the one the detector produced for that pair, the last one
\* called: every pair before it had a diff above 2.
ExitingPairReturned ==
  \A d \in SeenDiffs :
    (srch.pc = "done" /\ d <= 2) =>
      /\ srch.firstAt[d].at = srch.calls
      /\ srch.s.best_diff = d
      /\ srch.s.best_regions =
           DetectorOutput(srch.use_ffmpeg, srch.firstAt[d].n, srch.calls)
      /\ ~srch.use_ffmpeg => srch.s.best_params = srch.calls
      /\ \A e \in SeenDiffs \ {d} : e > 2 /\ srch.firstAt[e].at < srch.calls

\* C30 witness: with target_count 4 the first pair found nothing (diff 4),
\* the second another count off by more than 2, and the third a count off
\* by 1; the search ended there and returned the list of the third pair.
ExitingPairWitness ==
  /\ srch.pc = "done" /\ srch.calls = 3 /\ srch.target_count = 4
  /\ srch.first_diff = 4 /\ srch.firstAt[4] = [at |-> 1, n |-> 0]
  /\ srch.firstAt[3].at = 2
  /\ srch.firstAt[1].at = 3
  /\ srch.s.best_regions =
       DetectorOutput(srch.use_ffmpeg, srch.firstAt[1].n, 3)
  /\ Len(srch.s.best_regions) = srch.firstAt[1].n
  /\ \A gi \in 1..2 : \A n \in 0..MaxCount :
       srch.s.best_regions # DetectorOutput(srch.use_ffmpeg, n, gi)

====
